---- MODULE Spec2Model ----
(***************************************************************************)
(* TimeVault NFT front end (vault.py).                                     *)
(*                                                                         *)
(* The program is a Streamlit script: every user interaction re-runs the   *)
(* whole script from its first line with the widgets' current values and   *)
(* at most one button reporting True.  st.session_state survives between   *)
(* runs; every other name is a local of the run.  One run is modelled as   *)
(* a sequence of steps, cut at the network calls, so that the chain can    *)
(* make progress between two calls of the same run.                        *)
(***************************************************************************)
EXTENDS Integers, Sequences, FiniteSets, TLC

\* ---------------------------------------------------------------- bounds
MaxSleeps == 1       \* how many times the fixed delay is waited out
MaxNonce == 1        \* how many transactions of the account the chain includes
MaxAhead == 1        \* how many days after today the date picker offers
MaxVault == 2        \* vault ids 1..MaxVault
MaxToken == 2        \* token ids 1..MaxToken returned by the contract

\* ------------------------------------------------------ program constants
SecondsPerDay == 86400
SleepSecs == 3
MaxSizeKB == 500

\* ----------------------------------------------------------------- values
None == <<"None">>            \* Python's None, for values that are strings of tokens
Unset == <<"Unset">>          \* key absent from st.session_state
NoHash == "None"
UnsetHash == "Unset"
NoFile == "none"
NoAddress == "-"

VARIABLES
    PRIVATE_KEY, PINATA_API_KEY, PINATA_SECRET_KEY, tz,
    now, txCount, pending,
    private_key, ipfs_image_hash,
    wallet_option, private_key_input, uploaded_image, eth_amount, unlock_date, vault_id_input,
    pc, button, rendered, calls,
    account, unlock_ts, metadata_hash, nonce, tx, token_id,
    pre, mintsSinceUpload

env == <<PRIVATE_KEY, PINATA_API_KEY, PINATA_SECRET_KEY, tz>>
chain == <<txCount, pending>>
session == <<private_key, ipfs_image_hash>>
widgets == <<wallet_option, private_key_input, uploaded_image, eth_amount, unlock_date, vault_id_input>>
locals == <<account, unlock_ts, metadata_hash, nonce, tx, token_id>>
vars == <<env, now, chain, session, widgets, pc, button, rendered, calls, locals, pre, mintsSinceUpload>>

\* ------------------------------------------------------------ key strings
\* A key string is a sequence of tokens: "sp" a blank, "0x" the prefix,
\* "A" and "B" two well-formed 32-byte hex bodies, "z" anything else.
RECURSIVE LStrip(_)
LStrip(s) == IF s # <<>> /\ Head(s) = "sp" THEN LStrip(Tail(s)) ELSE s

RECURSIVE RStrip(_)
RStrip(s) == IF s # <<>> /\ s[Len(s)] = "sp" THEN RStrip(SubSeq(s, 1, Len(s) - 1)) ELSE s

\* str.strip()
Strip(s) == RStrip(LStrip(s))

\* if not s.startswith("0x"): s = "0x" + s
AddPrefix(s) == IF s # <<>> /\ Head(s) = "0x" THEN s ELSE <<"0x">> \o s

\* w3.eth.account.from_key(s).address, NoAddress where from_key raises
FromKey(s) ==
    LET body == IF s # <<>> /\ Head(s) = "0x" THEN Tail(s) ELSE s
    IN  IF body = <<"A">> THEN "addrA"
        ELSE IF body = <<"B">> THEN "addrB"
        ELSE NoAddress

\* Python truth value of a str-or-None
Truthy(s) == s # None /\ s # Unset /\ s # <<>>

TruthyStr(s) == s # "None" /\ s # ""

\* -------------------------------------------------------------- the clock
\* The session opens on 2029-12-31 (day 21914 of the epoch) at 12:00 UTC, so
\* that 2030-01-01 (day 21915) is one of the dates the picker offers.
StartTime == 21914 * SecondsPerDay + SecondsPerDay \div 2
EndTime == StartTime + MaxSleeps * SleepSecs

\* datetime.date.today(): the host's local date, as days since the epoch
Today(t, offset) == (t + offset) \div SecondsPerDay

\* int(datetime.datetime.combine(d, datetime.time.min).timestamp()): the
\* datetime is naive, so timestamp() reads it in the host's local time zone
UnlockTs(d, offset) == d * SecondsPerDay - offset

\* ----------------------------------------------------------- input domains
EnvKeys == {None, <<"0x", "A">>, <<"z">>}
TypedKeys == {<<>>, <<"sp", "B", "sp">>, <<"0x", "z">>}
Offsets == {0, 3600}
Files == {"small.jpg", "big.png"}
Options == {"Use .env file", "Enter private key manually"}
Buttons == {"upload", "mint", "withdraw"}

\* eth_amount in steps of 0.00001 ETH: the minimum the widget accepts, and 1 ETH
Amounts == {1, 100000}

\* len(uploaded_image.read()) / 1024
FileSizeKB(f) == IF f = "big.png" THEN 600 ELSE 2

\* optimize_image(image_bytes): the bytes of the re-encoded JPEG
optimize_image(bytes) == "jpeg(" \o bytes \o ")"

\* the content identifier the pinning service assigns to some bytes
Cid(bytes) == "Qm:" \o bytes

\* ------------------------------------------------------ network call log
\* calls is the sequence of outbound calls of the current run, kept until
\* the next run starts.
NoTx == [fn |-> "-", arg |-> 0, uri |-> <<>>, value |-> 0, nonce |-> 0, from |-> NoAddress]

Call(op, ok) == [op |-> op, ok |-> ok, img |-> "-", ts |-> 0, tx |-> NoTx, key |-> None, ret |-> 0]

Ops(log) == {log[i].op : i \in DOMAIN log}

Sent(log, fn) == {i \in DOMAIN log : log[i].op = "send_raw_transaction" /\ log[i].tx.fn = fn}

SentOk(log, fn) == {i \in Sent(log, fn) : log[i].ok}

Rest == {"idle", "stop_rpc", "stop_pinata", "stop_wallet", "crash_wallet",
         "stop_no_image", "stop_metadata"}

\* ------------------------------------------------------------------- Init
\* The first page load: an empty session, the widgets at their defaults,
\* the script about to run.
Init ==
    /\ PRIVATE_KEY \in EnvKeys
    /\ PINATA_API_KEY \in {"None", "key"}
    /\ PINATA_SECRET_KEY \in {"", "secret"}
    /\ tz \in Offsets
    /\ now = StartTime
    /\ txCount = 0
    /\ pending = {}
    /\ private_key = Unset
    /\ ipfs_image_hash = UnsetHash
    /\ wallet_option = "Use .env file"
    /\ private_key_input = <<>>
    /\ uploaded_image = NoFile
    /\ eth_amount = 1
    /\ unlock_date = Today(StartTime, tz)
    /\ vault_id_input = 1
    /\ pc = "connectivity"
    /\ button = "none"
    /\ rendered = {}
    /\ calls = <<>>
    /\ account = NoAddress
    /\ unlock_ts = 0
    /\ metadata_hash = "None"
    /\ nonce = 0
    /\ tx = NoTx
    /\ token_id = 0
    /\ pre = [private_key |-> Unset, ipfs_image_hash |-> UnsetHash]
    /\ mintsSinceUpload = 0

\* A rerun of the script: the locals are fresh, the session is kept.
StartRun(b) ==
    /\ pc \in Rest
    /\ pc' = "connectivity"
    /\ button' = b
    /\ rendered' = {}
    /\ calls' = <<>>
    /\ account' = NoAddress
    /\ unlock_ts' = 0
    /\ metadata_hash' = "None"
    /\ nonce' = 0
    /\ tx' = NoTx
    /\ token_id' = 0
    /\ pre' = [private_key |-> private_key, ipfs_image_hash |-> ipfs_image_hash]
    /\ UNCHANGED <<env, now, chain, session, mintsSinceUpload>>

\* ----------------------------------------------------------- user actions
\* The user can only touch a widget the last run rendered.
SelectWalletOption ==
    /\ "wallet_option" \in rendered
    /\ \E o \in Options \ {wallet_option} : wallet_option' = o
    /\ StartRun("none")
    /\ UNCHANGED <<private_key_input, uploaded_image, eth_amount, unlock_date, vault_id_input>>

TypePrivateKey ==
    /\ "private_key_input" \in rendered
    /\ \E s \in TypedKeys \ {private_key_input} : private_key_input' = s
    /\ StartRun("none")
    /\ UNCHANGED <<wallet_option, uploaded_image, eth_amount, unlock_date, vault_id_input>>

PickImage ==
    /\ "uploaded_image" \in rendered
    /\ \E f \in (Files \cup {NoFile}) \ {uploaded_image} : uploaded_image' = f
    /\ StartRun("none")
    /\ UNCHANGED <<wallet_option, private_key_input, eth_amount, unlock_date, vault_id_input>>

SetAmount ==
    /\ "eth_amount" \in rendered
    /\ \E a \in Amounts \ {eth_amount} : eth_amount' = a
    /\ StartRun("none")
    /\ UNCHANGED <<wallet_option, private_key_input, uploaded_image, unlock_date, vault_id_input>>

SetDate ==
    /\ "unlock_date" \in rendered
    /\ \E d \in (Today(now, tz)..(Today(now, tz) + MaxAhead)) \ {unlock_date} : unlock_date' = d
    /\ StartRun("none")
    /\ UNCHANGED <<wallet_option, private_key_input, uploaded_image, eth_amount, vault_id_input>>

SetVaultId ==
    /\ "vault_id" \in rendered
    /\ \E v \in (1..MaxVault) \ {vault_id_input} : vault_id_input' = v
    /\ StartRun("none")
    /\ UNCHANGED <<wallet_option, private_key_input, uploaded_image, eth_amount, unlock_date>>

PressButton ==
    /\ \E b \in Buttons : b \in rendered /\ StartRun(b)
    /\ UNCHANGED widgets

\* ---------------------------------------------------------- environment
\* The chain includes the account's pending transaction with the next nonce.
Mine ==
    /\ txCount \in pending
    /\ txCount < MaxNonce
    /\ txCount' = txCount + 1
    /\ pending' = pending \ {txCount}
    /\ UNCHANGED <<env, now, session, widgets, pc, button, rendered, calls, locals, pre, mintsSinceUpload>>

\* ------------------------------------------------------- the script's run
\* a connectivity check that lets the script go on whatever it finds
ConnectivityUnchecked(up, apiKey, secretKey) == TRUE

\* lines 115-121: the two connectivity checks
ConnectivityOk(up, apiKey, secretKey) == up /\ TruthyStr(apiKey) /\ TruthyStr(secretKey)

CheckConnectivity ==
    /\ pc = "connectivity"
    /\ \E up \in BOOLEAN :
        /\ calls' = Append(calls, Call("is_connected", up))
        /\ pc' = IF ConnectivityOk(up, PINATA_API_KEY, PINATA_SECRET_KEY) THEN "wallet"
                 ELSE IF ~up THEN "stop_rpc"
                 ELSE "stop_pinata"
    /\ UNCHANGED <<env, now, chain, session, widgets, button, rendered, locals, pre, mintsSinceUpload>>

\* lines 130-172: the value the wallet section leaves in
\* st.session_state.private_key
ResolvedKey(option, typed, configured) ==
    IF option = "Enter private key manually"
    THEN IF typed # <<>>
         THEN LET private_key_clean == AddPrefix(Strip(typed))
              IN  IF FromKey(private_key_clean) # NoAddress THEN private_key_clean ELSE None
         ELSE None
    ELSE IF Truthy(configured) THEN configured ELSE None

\* line 168: from_key(PRIVATE_KEY) is called outside any try
WalletRaises(option, configured) ==
    /\ option = "Use .env file"
    /\ Truthy(configured)
    /\ FromKey(configured) = NoAddress

\* lines 127-184
WalletConnection ==
    /\ pc = "wallet"
    /\ rendered' = rendered \cup {"wallet_option"} \cup
                   (IF wallet_option = "Enter private key manually" THEN {"private_key_input"} ELSE {})
    /\ private_key' = ResolvedKey(wallet_option, private_key_input, PRIVATE_KEY)
    /\ IF WalletRaises(wallet_option, PRIVATE_KEY)
       THEN pc' = "crash_wallet" /\ account' = account
       ELSE IF ~Truthy(private_key')
       THEN pc' = "stop_wallet" /\ account' = account
       ELSE pc' = "image" /\ account' = FromKey(private_key')
    /\ UNCHANGED <<env, now, chain, ipfs_image_hash, widgets, button, calls,
                   unlock_ts, metadata_hash, nonce, tx, token_id, pre, mintsSinceUpload>>

\* lines 211-217: the bytes that are hashed and uploaded
ImageBytes(f) == IF FileSizeKB(f) > MaxSizeKB THEN optimize_image(f) ELSE f

\* lines 192-242: the uploader, and the upload button's handler
ImageUpload ==
    /\ pc = "image"
    /\ rendered' = rendered \cup {"uploaded_image"} \cup
                   (IF uploaded_image # NoFile THEN {"upload"} ELSE {})
    /\ IF uploaded_image # NoFile /\ button = "upload"
       THEN \E ok \in BOOLEAN :
              /\ calls' = Append(calls, [Call("pinFileToIPFS", ok) EXCEPT !.img = ImageBytes(uploaded_image)])
              /\ ipfs_image_hash' = IF ok THEN Cid(ImageBytes(uploaded_image))
                                    ELSE IF ipfs_image_hash = UnsetHash THEN NoHash
                                    ELSE ipfs_image_hash
              /\ mintsSinceUpload' = IF ok THEN 0 ELSE mintsSinceUpload
       ELSE /\ calls' = calls
            /\ ipfs_image_hash' = IF ipfs_image_hash = UnsetHash THEN NoHash ELSE ipfs_image_hash
            /\ mintsSinceUpload' = mintsSinceUpload
    /\ pc' = "params"
    /\ UNCHANGED <<env, now, chain, private_key, widgets, button, locals, pre>>

\* a gate that lets every mint through
ImageReadyAlways(h) == TRUE

\* line 279: if not st.session_state.ipfs_image_hash
ImageReady(h) == h # UnsetHash /\ TruthyStr(h)

\* The run is over: its locals are gone.
LocalsGone ==
    /\ account' = NoAddress
    /\ unlock_ts' = 0
    /\ metadata_hash' = "None"
    /\ nonce' = 0
    /\ tx' = NoTx
    /\ token_id' = 0

\* lines 248-283: the amount and date widgets, unlock_ts, the mint button
\* and its gate on the pinned image
VaultParameters ==
    /\ pc = "params"
    /\ rendered' = rendered \cup {"eth_amount", "unlock_date", "mint"}
    /\ pc' = IF button # "mint" THEN "withdraw"
             ELSE IF ImageReady(ipfs_image_hash) THEN "mint_pin"
             ELSE "stop_no_image"
    /\ IF pc' = "stop_no_image" THEN LocalsGone
       ELSE /\ unlock_ts' = UnlockTs(unlock_date, tz)
            /\ UNCHANGED <<account, metadata_hash, nonce, tx, token_id>>
    /\ UNCHANGED <<env, now, chain, session, widgets, button, calls, pre, mintsSinceUpload>>

\* a metadata upload whose error is reported but does not stop the script
AfterMetadataNoStop(ok) == "mint_build"

\* where the script goes after the metadata upload (lines 300-306)
AfterMetadata(ok) == IF ok THEN "mint_build" ELSE "stop_metadata"

\* lines 283-311: the metadata document and its upload
MintPinMetadata ==
    /\ pc = "mint_pin"
    /\ \E ok \in BOOLEAN :
        /\ calls' = Append(calls, [Call("pinJSONToIPFS", ok) EXCEPT
                                      !.img = "ipfs://" \o ipfs_image_hash,
                                      !.ts = unlock_ts])
        /\ pc' = AfterMetadata(ok)
        /\ IF pc' = "stop_metadata" THEN LocalsGone
           ELSE /\ metadata_hash' = "QmMeta"
                /\ UNCHANGED <<account, unlock_ts, nonce, tx, token_id>>
    /\ UNCHANGED <<env, now, chain, session, widgets, button, rendered, pre, mintsSinceUpload>>

\* nonce = w3.eth.get_transaction_count(account.address), the number of the
\* account's transactions the chain has included, then
\* contract.functions.<fn>(...).build_transaction({... w3.eth.gas_price ...});
\* either read may raise
BuildTx(at, next, failed, call) ==
    /\ pc = at
    /\ \/ /\ calls' = Append(calls, Call("get_transaction_count", FALSE))
          /\ pc' = failed
          /\ IF failed = "idle" THEN LocalsGone ELSE UNCHANGED locals
       \/ /\ calls' = calls \o << [Call("get_transaction_count", TRUE) EXCEPT !.ret = txCount],
                                  Call("gas_price", FALSE) >>
          /\ pc' = failed
          /\ IF failed = "idle" THEN LocalsGone
             ELSE nonce' = txCount /\ UNCHANGED <<account, unlock_ts, metadata_hash, tx, token_id>>
       \/ /\ calls' = calls \o << [Call("get_transaction_count", TRUE) EXCEPT !.ret = txCount],
                                  Call("gas_price", TRUE) >>
          /\ pc' = next
          /\ nonce' = txCount
          /\ tx' = [call EXCEPT !.nonce = txCount]
          /\ UNCHANGED <<account, unlock_ts, metadata_hash, token_id>>
    /\ UNCHANGED <<env, now, chain, session, widgets, button, rendered, pre, mintsSinceUpload>>

\* What the node may answer to send_raw_transaction: it refuses a nonce the
\* chain has already used; otherwise it may accept or refuse.
NodeAnswers(t) == IF t.nonce < txCount THEN {FALSE} ELSE BOOLEAN

\* the arguments of the deposit call (lines 316-322)
DepositCall ==
    [fn |-> "deposit", arg |-> unlock_ts, uri |-> <<"ipfs://", metadata_hash>>,
     value |-> eth_amount, nonce |-> nonce, from |-> account]

\* lines 314-327
MintBuildTx == BuildTx("mint_build", "mint_send", "withdraw", DepositCall)

\* a mint that forgets to reset the pinned image
AfterMintKept(h) == h

\* line 341: the session's pinned image after a successful mint
AfterMint(h) == NoHash

\* lines 329-344: sign, broadcast, reset the pinned image; any exception is
\* caught and the script goes on to the withdraw section
MintSignSend ==
    /\ pc = "mint_send"
    /\ \/ /\ calls' = calls                   \* sign_transaction raises
          /\ UNCHANGED <<chain, session, mintsSinceUpload>>
       \/ \E ok \in NodeAnswers(tx) :
          /\ calls' = Append(calls, [Call("send_raw_transaction", ok) EXCEPT !.tx = tx, !.key = private_key])
          /\ IF ok
             THEN /\ pending' = pending \cup {tx.nonce}
                  /\ ipfs_image_hash' = AfterMint(ipfs_image_hash)
                  /\ mintsSinceUpload' = IF mintsSinceUpload < 2 THEN mintsSinceUpload + 1 ELSE 2
                  /\ UNCHANGED <<txCount, private_key>>
             ELSE UNCHANGED <<chain, session, mintsSinceUpload>>
    /\ pc' = "withdraw"
    /\ UNCHANGED <<env, now, widgets, button, rendered, locals, pre>>

\* lines 355-357: the vault id widget and the withdraw button
WithdrawSection ==
    /\ pc = "withdraw"
    /\ rendered' = rendered \cup {"vault_id", "withdraw"}
    /\ IF button = "withdraw"
       THEN pc' = "wd_lookup" /\ UNCHANGED locals
       ELSE pc' = "idle" /\ LocalsGone
    /\ UNCHANGED <<env, now, chain, session, widgets, button, calls, pre, mintsSinceUpload>>

\* line 360: token_id = contract.functions.getTokenIdByVault(vault_id_input).call()
WdLookup ==
    /\ pc = "wd_lookup"
    /\ \/ \E t \in 1..MaxToken :
            /\ calls' = Append(calls, [Call("getTokenIdByVault", TRUE) EXCEPT
                                          !.tx = [NoTx EXCEPT !.fn = "getTokenIdByVault", !.arg = vault_id_input],
                                          !.ret = t])
            /\ token_id' = t
            /\ pc' = "wd_build"
            /\ UNCHANGED <<account, unlock_ts, metadata_hash, nonce, tx>>
       \/ /\ calls' = Append(calls, [Call("getTokenIdByVault", FALSE) EXCEPT
                                          !.tx = [NoTx EXCEPT !.fn = "getTokenIdByVault", !.arg = vault_id_input]])
          /\ pc' = "idle"
          /\ LocalsGone
    /\ UNCHANGED <<env, now, chain, session, widgets, button, rendered, pre, mintsSinceUpload>>

\* the withdraw call (line 366)
WithdrawCall ==
    [fn |-> "withdraw", arg |-> vault_id_input, uri |-> <<>>, value |-> 0, nonce |-> nonce, from |-> account]

\* lines 364-373
WdBuildTx == BuildTx("wd_build", "wd_send", "idle", WithdrawCall)

\* sign_transaction and send_raw_transaction inside the try of lines 358-408:
\* an exception ends the operation
SignSend(at, next) ==
    /\ pc = at
    /\ \/ /\ calls' = calls                   \* sign_transaction raises
          /\ pc' = "idle"
          /\ LocalsGone
          /\ UNCHANGED pending
       \/ \E ok \in NodeAnswers(tx) :
          /\ calls' = Append(calls, [Call("send_raw_transaction", ok) EXCEPT !.tx = tx, !.key = private_key])
          /\ pending' = IF ok THEN pending \cup {tx.nonce} ELSE pending
          /\ IF ok /\ next # "idle"
             THEN pc' = next /\ UNCHANGED locals
             ELSE pc' = "idle" /\ LocalsGone
    /\ UNCHANGED <<env, now, txCount, session, widgets, button, rendered, pre, mintsSinceUpload>>

\* a withdrawal whose failure is swallowed: the script goes on to the burn
WdSignSendSwallowed ==
    /\ pc = "wd_send"
    /\ \/ calls' = calls /\ UNCHANGED pending
       \/ \E ok \in NodeAnswers(tx) :
          /\ calls' = Append(calls, [Call("send_raw_transaction", ok) EXCEPT !.tx = tx, !.key = private_key])
          /\ pending' = IF ok THEN pending \cup {tx.nonce} ELSE pending
    /\ pc' = "burn_sleep"
    /\ UNCHANGED <<env, now, txCount, session, widgets, button, rendered, locals, pre, mintsSinceUpload>>

\* lines 375-379
WdSignSend == SignSend("wd_send", "burn_sleep")

\* lines 383-384: time.sleep(3)
BurnSleep ==
    /\ pc = "burn_sleep"
    /\ now + SleepSecs <= EndTime
    /\ now' = now + SleepSecs
    /\ calls' = Append(calls, Call("sleep", TRUE))
    /\ pc' = "burn_build"
    /\ UNCHANGED <<env, chain, session, widgets, button, rendered, locals, pre, mintsSinceUpload>>

\* a burn that is given the vault id
BurnArgumentVault(vault, token) == vault

\* line 389: burn(token_id)
BurnArgument(vault, token) == token

BurnCall ==
    [fn |-> "burn", arg |-> BurnArgument(vault_id_input, token_id), uri |-> <<>>, value |-> 0,
     nonce |-> nonce, from |-> account]

\* lines 386-396
BurnBuildTx == BuildTx("burn_build", "burn_send", "idle", BurnCall)

\* lines 398-408
BurnSignSend == SignSend("burn_send", "idle")

Next ==
    \/ SelectWalletOption
    \/ TypePrivateKey
    \/ PickImage
    \/ SetAmount
    \/ SetDate
    \/ SetVaultId
    \/ PressButton
    \/ Mine
    \/ CheckConnectivity
    \/ WalletConnection
    \/ ImageUpload
    \/ VaultParameters
    \/ MintPinMetadata
    \/ MintBuildTx
    \/ MintSignSend
    \/ WithdrawSection
    \/ WdLookup
    \/ WdBuildTx
    \/ WdSignSend
    \/ BurnSleep
    \/ BurnBuildTx
    \/ BurnSignSend

Spec == Init /\ [][Next]_vars

\* ================================================================ claims
Indices(log, op) == {i \in DOMAIN log : log[i].op = op}

MintCalls == {"pinJSONToIPFS", "get_transaction_count", "gas_price", "send_raw_transaction"}

SessionAsBefore == private_key = pre.private_key /\ ipfs_image_hash = pre.ipfs_image_hash

\* C1: a run started by the mint button while the session's pinned image
\* identifier is empty stops at the gate: it makes no metadata pinning
\* request, no nonce or gas-price read and no broadcast.
C1_NoCallWithoutImage ==
    (button = "mint" /\ pre.ipfs_image_hash \in {NoHash, UnsetHash, ""}) =>
        /\ Ops(calls) \cap MintCalls = {}
        /\ pc \notin {"mint_pin", "mint_build", "mint_send"}

C1_Witness ==
    /\ button = "mint"
    /\ pre.ipfs_image_hash = NoHash
    /\ pc = "stop_no_image"

\* C2: every burn handed to the node comes after a successful
\* getTokenIdByVault(vault id) query of the same run and carries the token id
\* that query returned; the withdraw call carries the vault id.
C2_BurnUsesQueriedToken ==
    /\ \A b \in Sent(calls, "burn") :
          \E q \in Indices(calls, "getTokenIdByVault") :
              /\ q < b
              /\ calls[q].ok
              /\ calls[q].tx.arg = vault_id_input
              /\ calls[b].tx.arg = calls[q].ret
    /\ \A w \in Sent(calls, "withdraw") : calls[w].tx.arg = vault_id_input
    /\ (pc = "burn_send" => tx.fn = "burn" /\ tx.arg = token_id)

C2_Witness ==
    \E b \in SentOk(calls, "burn") : calls[b].tx.arg # vault_id_input

\* C3: in a withdraw run the calls go lookup, withdrawal, delay, burn; a
\* call that fails is the last call of the run; a withdrawal is handed to
\* the node only after a successful lookup, and a burn only after the
\* withdrawal broadcast of the same run succeeded and the delay was waited.
C3_StepsInOrderAndAbort ==
    button = "withdraw" =>
        /\ \A i \in DOMAIN calls : ~calls[i].ok => i = Len(calls)
        /\ \A w \in Sent(calls, "withdraw") :
              \E q \in Indices(calls, "getTokenIdByVault") : q < w /\ calls[q].ok
        /\ \A b \in Sent(calls, "burn") :
              \E w \in SentOk(calls, "withdraw") :
              \E d \in Indices(calls, "sleep") : w < d /\ d < b
        /\ Cardinality(Sent(calls, "withdraw")) <= 1
        /\ Cardinality(Sent(calls, "burn")) <= 1
        /\ (pc \in {"burn_sleep", "burn_build", "burn_send"} => SentOk(calls, "withdraw") # {})

C3_Witness ==
    /\ button = "withdraw"
    /\ pc = "idle"
    /\ Sent(calls, "withdraw") # {}
    /\ SentOk(calls, "withdraw") = {}
    /\ Sent(calls, "burn") = {}

\* C4: once the deposit of a run was broadcast the session's pinned image
\* identifier is empty, and no pinned image backs more than one successful
\* mint.
C4_ImageClearedAfterMint ==
    /\ SentOk(calls, "deposit") # {} => ipfs_image_hash = NoHash
    /\ mintsSinceUpload <= 1

C4_Witness ==
    /\ pc = "idle"
    /\ SentOk(calls, "deposit") # {}
    /\ pre.ipfs_image_hash \notin {NoHash, UnsetHash}

\* C5: a mint run that has not broadcast its deposit leaves the session's
\* pinned image identifier and signing key as they were when the button was
\* pressed, makes each call at most once, and makes no call after a failed
\* metadata upload.
C5_FailedMintChangesNothing ==
    (button = "mint" /\ SentOk(calls, "deposit") = {}) =>
        /\ SessionAsBefore
        /\ \A o \in Ops(calls) : Cardinality(Indices(calls, o)) = 1
        /\ \A i \in Indices(calls, "pinJSONToIPFS") :
              ~calls[i].ok => i = Len(calls) /\ pc = "stop_metadata"

C5_Witness ==
    /\ button = "mint"
    /\ pc = "stop_metadata"
    /\ \E i \in Indices(calls, "pinJSONToIPFS") : ~calls[i].ok
    /\ ipfs_image_hash \notin {NoHash, UnsetHash}

\* C6: after the wallet section has seen an invalid key (typed or
\* configured) the session holds no key and the run has stopped; past the
\* wallet section the session holds a valid key, and every transaction is
\* signed with it.
KeyOffered ==
    IF wallet_option = "Enter private key manually"
    THEN AddPrefix(Strip(private_key_input))
    ELSE PRIVATE_KEY

PastWallet == pc \notin {"connectivity", "wallet", "stop_rpc", "stop_pinata"}

C6_InvalidKeyClearsIdentity ==
    PastWallet =>
        /\ FromKey(KeyOffered) = NoAddress => private_key = None /\ pc = "stop_wallet"
        /\ pc \notin Rest => FromKey(private_key) # NoAddress
        /\ \A i \in Indices(calls, "send_raw_transaction") : calls[i].key = private_key

\* C7: a deposit is broadcast with a positive amount and an unlock
\* timestamp later than the time of the broadcast.
C7_UnlockInFuture ==
    \A i \in SentOk(calls, "deposit") :
        /\ calls[i].tx.value > 0
        /\ calls[i].tx.arg > now

\* C8: the timestamp of the deposit is midnight UTC of the chosen date,
\* whatever the host's time zone (1893456000 for 2030-01-01, day 21915), and
\* the metadata carries the same value.
C8_MidnightWhateverTheZone ==
    \A i \in Sent(calls, "deposit") :
        /\ calls[i].tx.arg = unlock_date * SecondsPerDay
        /\ unlock_date = 21915 => calls[i].tx.arg = 1893456000
        /\ \A m \in Indices(calls, "pinJSONToIPFS") : calls[m].ts = calls[i].tx.arg

\* C9: a run whose connectivity check failed (RPC unreachable, or a pinning
\* credential missing) makes no further call, renders nothing, resolves no
\* wallet and leaves the session as it was.
C9_ConnectivityFailureHalts ==
    (/\ calls # <<>>
     /\ \/ ~calls[1].ok
        \/ PINATA_API_KEY \in {"None", ""}
        \/ PINATA_SECRET_KEY \in {"None", ""}) =>
        /\ Len(calls) = 1
        /\ pc \in {"stop_rpc", "stop_pinata"}
        /\ rendered = {}
        /\ SessionAsBefore

C9_Witness ==
    /\ pc = "stop_rpc"
    /\ pre.private_key \notin {None, Unset}
    /\ pre.ipfs_image_hash \notin {NoHash, UnsetHash}

\* C10: when both transactions of a withdraw run were broadcast, the burn's
\* nonce is greater than the withdrawal's.
C10_BurnNonceAfterWithdraw ==
    \A w \in SentOk(calls, "withdraw") :
    \A b \in SentOk(calls, "burn") : calls[b].tx.nonce > calls[w].tx.nonce

====
